---- MODULE Spec2Model ----
(***************************************************************************)
(* random-gradient-generator: the library (src/src/lib.rs) and its CLI     *)
(* (src/cli/src/main.rs) as one state machine.                             *)
(*                                                                         *)
(* Numbers.  f32 values are fixed-point integers: a hue is counted in      *)
(* 1/HueUnit degrees, a saturation or a brightness in 1/FracUnit.  The     *)
(* arithmetic of hsv_to_rgb is carried out exactly on these rationals and  *)
(* truncated as `as u8` truncates; the inputs drawn are binary fractions   *)
(* and hues on which the f32 computation truncates to the same bytes.      *)
(* u32 values are words of WordBits bits, so that the products the code    *)
(* computes in u32 can leave the word.                                     *)
(*                                                                         *)
(* The noise generator (simdnoise) and the image buffer (bmp) are outside  *)
(* the repository.  The generator is a function of its arguments and of    *)
(* the hidden choice `generator`, drawn once and kept for every call; the  *)
(* image is a width x height grid of pixels.  A sample that leaves the     *)
(* range by one unit stands for every sample the range checks reject.      *)
(***************************************************************************)
EXTENDS Integers, Sequences, FiniteSets, TLC

VARIABLES
    pc,              \* where the program is
    cli,             \* the parsed command line (Cli)
    overflow_checks, \* the build: TRUE panics on integer overflow, FALSE wraps
    generator,       \* the black-box noise generator's hidden behaviour
    pixel_init,      \* main's PixelInit
    noise_options,   \* main's NoiseOptions
    noise,           \* generate_image's noise field
    image,           \* generate_image's image buffer
    writes,          \* history: how often set_pixel wrote each coordinate
    cursor,          \* how many coordinates the sweep has taken
    converted,       \* history: how many hsv_to_rgb calls this call has made
    last,            \* history: the latest hsv_to_rgb call and its place
    result,          \* what generate_image returned
    calls,           \* history: how many generate_image calls were made
    prev,            \* history: what the previous generate_image call returned
    saved,           \* whether image.save wrote the output file
    panic            \* the panic that ended the program, "" when none

vars == <<pc, cli, overflow_checks, generator, pixel_init, noise_options, noise,
          image, writes, cursor, converted, last, result, calls, prev, saved, panic>>

---------------------------------------------------------------------------
(* Bounds of the model. *)

\* Width and height are drawn from 0..MaxDim.
MaxDim == 3
\* A u32 is modelled as a word of WordBits bits.
WordBits == 2
\* generate_image is called at most MaxCalls times with the same arguments.
MaxCalls == 2
\* Seeds are drawn from 0..MaxSeed.
MaxSeed == 1
\* The generator's in-range samples take NoiseSteps + 1 evenly spaced levels.
NoiseSteps == 3

---------------------------------------------------------------------------
(* Units and program constants. *)

HueUnit == 10 * 10
FracUnit == 2 * 2 * 2
\* lib.rs:368, the end of the hue range 0.0..360.0
HueEnd == 360
\* lib.rs:379, hue / 60.0
SextantWidth == 60
\* lib.rs:395, * 255.0
ChannelScale == 255
\* lib.rs:118, 0.0..=359.99 in 1/HueUnit degrees
HueNoiseEnd == 35999

U32Modulus == 2 ^ WordBits

Abs(v) == IF v < 0 THEN -v ELSE v
Max(a, b) == IF a < b THEN b ELSE a

---------------------------------------------------------------------------
(* lib.rs: OutOfRangeValue, hsv_to_rgb *)

Ok(v) == [tag |-> "Ok", value |-> v]
Err(e) == [tag |-> "Err", error |-> e]
None == [tag |-> "None"]

\* (0.0..360.0).contains(&hue)
HueInRange(hue) == 0 <= hue /\ hue < HueEnd * HueUnit

\* (0.0..=1.0).contains(&v)
FracInRange(v) == 0 <= v /\ v <= FracUnit

\* AsU8 rounding to the nearest byte instead of truncating.
AsU8Rounded(num, den) ==
    IF num < 0 THEN 0
    ELSE IF (2 * num + den) \div (2 * den) > 255 THEN 255
    ELSE (2 * num + den) \div (2 * den)
\* `as u8` on an f32 num/den: the fractional part is dropped and the value
\* saturates at the ends of u8.
AsU8(num, den) ==
    IF num < 0 THEN 0
    ELSE IF num \div den > 255 THEN 255
    ELSE num \div den

\* The common denominator of c, x and m.
ChannelDen == FracUnit * FracUnit * SextantWidth * HueUnit

\* (r', g', b') by the hue sextant, as numerators over ChannelDen.
Sextant(hue, c, x) ==
    IF hue < 60 * HueUnit THEN <<c, x, 0>>
    ELSE IF hue < 120 * HueUnit THEN <<x, c, 0>>
    ELSE IF hue < 180 * HueUnit THEN <<0, c, x>>
    ELSE IF hue < 240 * HueUnit THEN <<0, x, c>>
    ELSE IF hue < 300 * HueUnit THEN <<x, 0, c>>
    ELSE <<c, 0, x>>

\* Validate with the saturation check moved before the hue check.
ValidateSaturationFirst(hue, saturation, brightness) ==
    IF ~FracInRange(saturation) THEN Err("Saturation")
    ELSE IF ~HueInRange(hue) THEN Err("Hue")
    ELSE IF ~FracInRange(brightness) THEN Err("Brightness")
    ELSE None
\* lib.rs 368-376: the three range checks, in the code's order.
Validate(hue, saturation, brightness) ==
    IF ~HueInRange(hue) THEN Err("Hue")
    ELSE IF ~FracInRange(saturation) THEN Err("Saturation")
    ELSE IF ~FracInRange(brightness) THEN Err("Brightness")
    ELSE None

\* lib.rs 378-398, for a validated input.
Channels(hue, saturation, brightness) ==
    LET period == SextantWidth * HueUnit
        c == saturation * brightness
        \* 1 - |(hue / 60) % 2 - 1|, over period
        ramp == period - Abs((hue % (2 * period)) - period)
        cn == c * period
        xn == c * ramp
        mn == (brightness * FracUnit - c) * period
        rgb == Sextant(hue, cn, xn)
    IN  <<AsU8((rgb[1] + mn) * ChannelScale, ChannelDen),
          AsU8((rgb[2] + mn) * ChannelScale, ChannelDen),
          AsU8((rgb[3] + mn) * ChannelScale, ChannelDen)>>

hsv_to_rgb(hue, saturation, brightness) ==
    LET check == Validate(hue, saturation, brightness)
    IN  IF check.tag = "Err" THEN check
        ELSE Ok(Channels(hue, saturation, brightness))

---------------------------------------------------------------------------
(* lib.rs: PixelInit, and main.rs: ColorParameter, From<CliColor> *)

Random == [tag |-> "Random"]
Set(v) == [tag |-> "Set", value |-> v]

Hue(s, b) == [variant |-> "Hue", saturation |-> s, brightness |-> b]
Saturation(h, b) == [variant |-> "Saturation", hue |-> h, brightness |-> b]
Brightness(h, s) == [variant |-> "Brightness", hue |-> h, saturation |-> s]

\* main's pixel_init before PixelInit::from has run.
NoPixelInit == [variant |-> "None"]

\* PixelInit::valid_range
valid_range(init) ==
    IF init.variant = "Hue" THEN [start |-> 0, end |-> HueNoiseEnd]
    ELSE [start |-> 0, end |-> FracUnit]

\* FromCliColor with a third arm that does not look at brightness.
FromCliColorLenient(color) ==
    IF color.hue.tag = "Random" /\ color.saturation.tag = "Set"
       /\ color.brightness.tag = "Set"
    THEN Ok(Hue(color.saturation.value, color.brightness.value))
    ELSE IF color.hue.tag = "Set" /\ color.saturation.tag = "Random"
            /\ color.brightness.tag = "Set"
    THEN Ok(Saturation(color.hue.value, color.brightness.value))
    ELSE IF color.hue.tag = "Set" /\ color.saturation.tag = "Set"
    THEN Ok(Brightness(color.hue.value, color.saturation.value))
    ELSE Err("must have exactly one component set to Random")
\* From<CliColor> for PixelInit: Ok(pixel_init), or Err for the panic.
FromCliColor(color) ==
    IF color.hue.tag = "Random" /\ color.saturation.tag = "Set"
       /\ color.brightness.tag = "Set"
    THEN Ok(Hue(color.saturation.value, color.brightness.value))
    ELSE IF color.hue.tag = "Set" /\ color.saturation.tag = "Random"
            /\ color.brightness.tag = "Set"
    THEN Ok(Saturation(color.hue.value, color.brightness.value))
    ELSE IF color.hue.tag = "Set" /\ color.saturation.tag = "Set"
            /\ color.brightness.tag = "Random"
    THEN Ok(Brightness(color.hue.value, color.saturation.value))
    ELSE Err("must have exactly one component set to Random")

---------------------------------------------------------------------------
(* main.rs: CliNoise, From<CliNoise>, and the frequency main fills in *)

Some(v) == [tag |-> "Some", value |-> v]

\* An f32 frequency, as the fraction num/den (den = 0 is +inf).
Frequency(n, d) == [num |-> n, den |-> d]

\* (f64::from(magnitude) as f32).recip()
Recip(magnitude) == Frequency(1, magnitude)

\* main.rs 194-197: cli.noise.frequency.get_or_insert_with(..)
DefaultFrequency(size, frequency) ==
    IF frequency.tag = "Some" THEN frequency.value
    ELSE Recip(Max(size.width, size.height))

Seeds == 0..MaxSeed

---------------------------------------------------------------------------
(* The collaborators of generate_image *)

\* The k-th of the evenly spaced levels of [min, max].
NoiseLevel(k, min, max) ==
    min + ((max - min) * (k % (NoiseSteps + 1))) \div NoiseSteps

\* NoiseField with a seed that moves on with every call.
NoiseFieldPerCall(width, height, frequency, seed, min, max) ==
    [i \in 1..(width * height) |->
        IF generator.escape_at = i - 1
        THEN IF generator.escape_high THEN max + 1 ELSE min - 1
        ELSE NoiseLevel(seed + calls
                        + ((i - 1) * frequency.num) \div Max(frequency.den, 1),
                        min, max)]
\* NoiseBuilder::gradient_2d(w, h).with_freq(f).with_seed(s)
\*     .generate_scaled(min, max): width * height samples, row-major.  The
\* in-range samples step through the levels of [min, max], starting at the
\* seed and moving on at the frequency; the sample at generator.escape_at
\* leaves the range by one unit.
NoiseField(width, height, frequency, seed, min, max) ==
    [i \in 1..(width * height) |->
        IF generator.escape_at = i - 1
        THEN IF generator.escape_high THEN max + 1 ELSE min - 1
        ELSE NoiseLevel(seed + ((i - 1) * frequency.num) \div Max(frequency.den, 1),
                        min, max)]

CoordSet(width, height) == (0..(width - 1)) \X (0..(height - 1))

\* ImageNew with both dimensions raised to at least 1.
ImageNewAtLeastOne(width, height) ==
    [width |-> Max(width, 1), height |-> Max(height, 1),
     data |-> [c \in CoordSet(Max(width, 1), Max(height, 1)) |-> <<0, 0, 0>>]]
\* Image::new(width, height): every pixel black.
ImageNew(width, height) ==
    [width |-> width, height |-> height,
     data |-> [c \in CoordSet(width, height) |-> <<0, 0, 0>>]]

\* image.coordinates(): x runs fastest.
Coordinates(img) ==
    [i \in 1..(img.width * img.height) |->
        <<(i - 1) % img.width, (i - 1) \div img.width>>]

\* image.set_pixel(x, y, px)
SetPixel(img, x, y, px) == [img EXCEPT !.data[<<x, y>>] = px]

---------------------------------------------------------------------------
(* lib.rs: generate_image *)

\* size.width * y + x in u32: each operation either fits or leaves the word.
NoiseIndex(width, y, x) ==
    LET product == width * y
        sum == (product % U32Modulus) + x
    IN  [overflow |-> product >= U32Modulus \/ sum >= U32Modulus,
         value |-> sum % U32Modulus]

\* PixelArgs with the two fixed components of the Hue arm exchanged.
PixelArgsSwapped(init, noise_value) ==
    IF init.variant = "Hue"
    THEN [hue |-> noise_value, saturation |-> init.brightness,
          brightness |-> init.saturation]
    ELSE IF init.variant = "Saturation"
    THEN [hue |-> init.hue, saturation |-> noise_value,
          brightness |-> init.brightness]
    ELSE [hue |-> init.hue, saturation |-> init.saturation,
          brightness |-> noise_value]
\* lib.rs 158-165: the match that puts the sample in the free component.
PixelArgs(init, noise_value) ==
    IF init.variant = "Hue"
    THEN [hue |-> noise_value, saturation |-> init.saturation,
          brightness |-> init.brightness]
    ELSE IF init.variant = "Saturation"
    THEN [hue |-> init.hue, saturation |-> noise_value,
          brightness |-> init.brightness]
    ELSE [hue |-> init.hue, saturation |-> init.saturation,
          brightness |-> noise_value]

\* Question as unwrap_or_default: an Err becomes a black pixel.
QuestionUnwrapOrDefault(px) ==
    [returns |-> FALSE,
     value |-> IF px.tag = "Err" THEN <<0, 0, 0>> ELSE px.value]
\* lib.rs 165, the `?`: an Err leaves generate_image, an Ok yields its pixel.
Question(px) ==
    IF px.tag = "Err" THEN [returns |-> TRUE, value |-> px]
    ELSE [returns |-> FALSE, value |-> px.value]

---------------------------------------------------------------------------
(* The inputs *)

HueArgs == {-1 * HueUnit, 0, 120 * HueUnit, 240 * HueUnit, 360 * HueUnit}
FracArgs == {-1, 0, FracUnit \div 2, FracUnit, 2 * FracUnit}

ColorArgs(values) == {Random} \cup {Set(v) : v \in values}

Sizes == [width : 0..MaxDim, height : 0..MaxDim]

CliArgs ==
    [color : [hue : ColorArgs(HueArgs), saturation : ColorArgs(FracArgs),
              brightness : ColorArgs(FracArgs)],
     size : Sizes,
     noise : {[seed |-> None, frequency |-> None],
              [seed |-> Some(0), frequency |-> Some(Frequency(1, 1))]}]

\* What the generator may do on a field of n samples: all of them in range,
\* or one of them (the first, the middle or the last) below or above it.
Generators(n) ==
    {[escape_at |-> -1, escape_high |-> FALSE]}
    \cup [escape_at : {0, n \div 2, n - 1} \cap 0..(n - 1), escape_high : BOOLEAN]

Init ==
    /\ pc = "main"
    /\ cli \in CliArgs
    /\ overflow_checks \in BOOLEAN
    /\ generator \in Generators(cli.size.width * cli.size.height)
    /\ pixel_init = NoPixelInit
    /\ noise_options = None
    /\ noise = <<>>
    /\ image = None
    /\ writes = <<>>
    /\ cursor = 0
    /\ converted = 0
    /\ last = None
    /\ result = None
    /\ calls = 0
    /\ prev = None
    /\ saved = FALSE
    /\ panic = ""

---------------------------------------------------------------------------
(* main.rs: main, up to the call of generate_image *)

Panic(message) ==
    /\ pc' = "panicked"
    /\ panic' = message

\* main.rs 193-200
MainConvert ==
    /\ pc = "main"
    /\ LET frequency == DefaultFrequency(cli.size, cli.noise.frequency)
           color == FromCliColor(cli.color)
       IN  /\ cli' = [cli EXCEPT !.noise.frequency = Some(frequency)]
           /\ IF color.tag = "Err"
              THEN /\ Panic(color.error)
                   /\ UNCHANGED <<pixel_init, noise_options>>
              ELSE /\ pixel_init' = color.value
                   /\ \E seed \in (IF cli.noise.seed.tag = "Some"
                                   THEN {cli.noise.seed.value} ELSE Seeds) :
                         noise_options' = [seed |-> seed, frequency |-> frequency]
                   /\ pc' = "ready"
                   /\ UNCHANGED panic
    /\ UNCHANGED <<overflow_checks, generator, noise, image, writes, cursor,
                   converted, last, result, calls, prev, saved>>

---------------------------------------------------------------------------
(* lib.rs: generate_image *)

\* lib.rs 146-155: the noise field and the empty image.
Enter ==
    LET size == cli.size
        noise_range == valid_range(pixel_init)
    IN  /\ noise' = NoiseField(size.width, size.height, noise_options.frequency,
                               noise_options.seed, noise_range.start,
                               noise_range.end)
        /\ image' = ImageNew(size.width, size.height)
        /\ writes' = [c \in CoordSet(size.width, size.height) |-> 0]
        /\ cursor' = 0
        /\ converted' = 0
        /\ last' = None
        /\ result' = None
        /\ calls' = calls + 1
        /\ pc' = "sweep"

\* main.rs 223-224: main calls generate_image.
GenerateImage ==
    /\ pc = "ready"
    /\ Enter
    /\ UNCHANGED <<cli, overflow_checks, generator, pixel_init, noise_options,
                   prev, saved, panic>>

\* A caller of the library calls generate_image again with the same arguments.
CallAgain ==
    /\ pc = "returned"
    /\ calls < MaxCalls
    /\ prev' = result
    /\ Enter
    /\ UNCHANGED <<cli, overflow_checks, generator, pixel_init, noise_options,
                   saved, panic>>

\* lib.rs 156-168: one turn of the loop.
SweepPixel ==
    /\ pc = "sweep"
    /\ cursor < Len(Coordinates(image))
    /\ LET xy == Coordinates(image)[cursor + 1]
           x == xy[1]
           y == xy[2]
           index == NoiseIndex(cli.size.width, y, x)
       IN  /\ cursor' = cursor + 1
           /\ IF index.overflow /\ overflow_checks
              THEN /\ Panic("arithmetic overflow")
                   /\ UNCHANGED <<image, writes, converted, last, result>>
              ELSE IF index.value >= Len(noise)
              THEN /\ Panic("index out of bounds")
                   /\ UNCHANGED <<image, writes, converted, last, result>>
              ELSE LET args == PixelArgs(pixel_init, noise[index.value + 1])
                       px == hsv_to_rgb(args.hue, args.saturation, args.brightness)
                       tried == Question(px)
                   IN  /\ converted' = converted + 1
                       /\ last' = [tag |-> "Call", x |-> x, y |-> y,
                                   index |-> index.value,
                                   hue |-> args.hue, saturation |-> args.saturation,
                                   brightness |-> args.brightness, px |-> px]
                       /\ IF tried.returns
                          THEN /\ result' = tried.value
                               /\ pc' = "returned"
                               /\ UNCHANGED <<image, writes>>
                          ELSE /\ image' = SetPixel(image, x, y, tried.value)
                               /\ writes' = [writes EXCEPT ![<<x, y>>] = @ + 1]
                               /\ UNCHANGED <<result, pc>>
                       /\ UNCHANGED panic
    /\ UNCHANGED <<cli, overflow_checks, generator, pixel_init, noise_options,
                   noise, calls, prev, saved>>

\* lib.rs 170: Ok(image)
SweepEnd ==
    /\ pc = "sweep"
    /\ cursor >= Len(Coordinates(image))
    /\ result' = Ok(image)
    /\ pc' = "returned"
    /\ UNCHANGED <<cli, overflow_checks, generator, pixel_init, noise_options,
                   noise, image, writes, cursor, converted, last, calls, prev,
                   saved, panic>>

---------------------------------------------------------------------------
(* main.rs: main, after generate_image *)

\* main.rs 223-225: .unwrap() and image.save(..)
MainSave ==
    /\ pc = "returned"
    /\ IF result.tag = "Err"
       THEN /\ Panic("called Result::unwrap() on an Err value")
            /\ UNCHANGED saved
       ELSE /\ saved' = TRUE
            /\ pc' = "exit"
            /\ UNCHANGED panic
    /\ UNCHANGED <<cli, overflow_checks, generator, pixel_init, noise_options,
                   noise, image, writes, cursor, converted, last, result, calls,
                   prev>>

Next ==
    \/ MainConvert
    \/ GenerateImage
    \/ CallAgain
    \/ SweepPixel
    \/ SweepEnd
    \/ MainSave

Spec == Init /\ [][Next]_vars

---------------------------------------------------------------------------
(* The properties *)

Width == cli.size.width
Height == cli.size.height
Pixels == Width * Height

\* The panics that generate_image itself can raise.
SweepPanics == {"arithmetic overflow", "index out of bounds"}

\* The ranges of section 4.3, written out.
SpecHueOk(h) == 0 <= h /\ h < 360 * HueUnit
SpecFracOk(v) == 0 <= v /\ v <= FracUnit

SpecDen == FracUnit * FracUnit * 60 * HueUnit
SpecNumerators(h, s, b) ==
    LET C == s * b * 60 * HueUnit
        X == s * b * (60 * HueUnit - Abs((h % (120 * HueUnit)) - 60 * HueUnit))
        M == (b * FracUnit - s * b) * 60 * HueUnit
        rgb == CASE h < 60 * HueUnit -> <<C, X, 0>>
                 [] h >= 60 * HueUnit /\ h < 120 * HueUnit -> <<X, C, 0>>
                 [] h >= 120 * HueUnit /\ h < 180 * HueUnit -> <<0, C, X>>
                 [] h >= 180 * HueUnit /\ h < 240 * HueUnit -> <<0, X, C>>
                 [] h >= 240 * HueUnit /\ h < 300 * HueUnit -> <<X, 0, C>>
                 [] h >= 300 * HueUnit -> <<C, 0, X>>
    IN  [k \in 1..3 |-> (rgb[k] + M) * 255]

\* v is num/den with its fractional part discarded.
IsTruncationOf(v, num, den) == v * den <= num /\ num < (v + 1) * den

\* C2: for a valid input hsv_to_rgb returns the three channels of the formula
\* of section 4.3, each with its fractional part discarded and within 0..255;
\* black, red, green, blue and white come out as the spec lists them.
C2_Formula ==
    (last.tag = "Call" /\ last.px.tag = "Ok") =>
        LET num == SpecNumerators(last.hue, last.saturation, last.brightness)
            rgb == last.px.value
            at(d, sat, bri) == /\ last.hue = d * HueUnit
                               /\ last.saturation = sat * FracUnit
                               /\ last.brightness = bri * FracUnit
        IN  /\ \A k \in 1..3 :
                  rgb[k] \in 0..255 /\ IsTruncationOf(rgb[k], num[k], SpecDen)
            /\ at(0, 0, 0) => rgb = <<0, 0, 0>>
            /\ at(0, 1, 1) => rgb = <<255, 0, 0>>
            /\ at(120, 1, 1) => rgb = <<0, 255, 0>>
            /\ at(240, 1, 1) => rgb = <<0, 0, 255>>
            /\ at(0, 0, 1) => rgb = <<255, 255, 255>>

\* hsv_to_rgb(0, 1, 0.5): the red channel is 127.5 and comes out as 127.
C2_Witness ==
    /\ last.tag = "Call"
    /\ last.hue = 0
    /\ last.saturation = FracUnit
    /\ 2 * last.brightness = FracUnit
    /\ last.px = Ok(<<127, 0, 0>>)

\* The coordinate the sweep takes as its i-th, in row-major order.
SpecCoordinate(i) == <<(i - 1) % Width, (i - 1) \div Width>>

\* C3: the first pixel whose conversion fails ends the sweep: generate_image
\* returns that pixel's error and no image, every earlier pixel was written,
\* no later pixel is converted or written, and the CLI saves a file only
\* after generate_image returned Ok.
C3_FirstFailureStops ==
    /\ (last.tag = "Call" /\ last.px.tag = "Err") =>
           /\ pc \in {"returned", "panicked"}
           /\ result = last.px
    /\ result.tag = "Err" =>
           /\ last.tag = "Call"
           /\ result = last.px
           /\ converted = cursor
           /\ <<last.x, last.y>> = SpecCoordinate(cursor)
           /\ \A i \in 1..Pixels :
                  /\ i < cursor => writes[SpecCoordinate(i)] = 1
                  /\ i >= cursor =>
                         /\ writes[SpecCoordinate(i)] = 0
                         /\ image.data[SpecCoordinate(i)] = <<0, 0, 0>>
           /\ ~saved
    /\ saved => result.tag = "Ok"

\* A conversion failed in the middle of the sweep and main has panicked on it.
C3_Witness ==
    /\ result.tag = "Err"
    /\ cursor > 1
    /\ cursor < Pixels
    /\ pc = "panicked"
    /\ ~saved

\* The arguments of the conversion of the pixel at (x, y), from the sample at
\* width * y + x.
SpecPixel(x, y) ==
    LET sample == noise[Width * y + x + 1]
        h == IF pixel_init.variant = "Hue" THEN sample ELSE pixel_init.hue
        sat == IF pixel_init.variant = "Saturation" THEN sample
               ELSE pixel_init.saturation
        bri == IF pixel_init.variant = "Brightness" THEN sample
               ELSE pixel_init.brightness
    IN  hsv_to_rgb(h, sat, bri)

\* C4: a returned image has width x height pixels, each written exactly once
\* with the conversion of the sample at index width * y + x.
C4_EveryPixelFromItsSample ==
    result.tag = "Ok" =>
        /\ result.value.width = Width
        /\ result.value.height = Height
        /\ DOMAIN result.value.data = (0..(Width - 1)) \X (0..(Height - 1))
        /\ \A c \in DOMAIN result.value.data :
               /\ writes[c] = 1
               /\ SpecPixel(c[1], c[2]).tag = "Ok"
               /\ result.value.data[c] = SpecPixel(c[1], c[2]).value

\* C4 on the sizes whose largest index fits the u32 word.
C4_WhereIndexFits ==
    Pixels <= U32Modulus => C4_EveryPixelFromItsSample

BadSaturation ==
    /\ pixel_init.variant = "Hue"
    /\ ~SpecFracOk(pixel_init.saturation)

Returned == calls >= 1 /\ pc # "sweep"

RandomCount ==
    Cardinality({k \in {"hue", "saturation", "brightness"} :
                    cli.color[k].tag = "Random"})

\* C8: the conversion of the CLI colour parameters yields a PixelInit only
\* when exactly one is Random, the variant named after it, with the other two
\* values; every other combination panics and generate_image is never called.
C8_ExactlyOneRandom ==
    pc # "main" =>
        IF RandomCount = 1
        THEN /\ panic \in {""} \cup SweepPanics
                          \cup {"called Result::unwrap() on an Err value"}
             /\ cli.color.hue.tag = "Random" =>
                    pixel_init = [variant |-> "Hue",
                                  saturation |-> cli.color.saturation.value,
                                  brightness |-> cli.color.brightness.value]
             /\ cli.color.saturation.tag = "Random" =>
                    pixel_init = [variant |-> "Saturation",
                                  hue |-> cli.color.hue.value,
                                  brightness |-> cli.color.brightness.value]
             /\ cli.color.brightness.tag = "Random" =>
                    pixel_init = [variant |-> "Brightness",
                                  hue |-> cli.color.hue.value,
                                  saturation |-> cli.color.saturation.value]
        ELSE /\ pc = "panicked"
             /\ panic = "must have exactly one component set to Random"
             /\ pixel_init = NoPixelInit
             /\ calls = 0

\* The conversion has panicked on three Set parameters.
C8_Witness ==
    /\ pc = "panicked"
    /\ RandomCount = 0
    /\ calls = 0

\* C9: for every coordinate the sweep visits, size.width * y + x computed in
\* u32 does not overflow, equals width * y + x and is less than width * height.
C9_IndexFits ==
    /\ panic # "arithmetic overflow"
    /\ last.tag = "Call" =>
           /\ last.index = Width * last.y + last.x
           /\ last.index < Pixels

FixedInRange ==
    /\ pixel_init.variant \in {"Saturation", "Brightness"} =>
           SpecHueOk(pixel_init.hue)
    /\ pixel_init.variant \in {"Hue", "Brightness"} =>
           SpecFracOk(pixel_init.saturation)
    /\ pixel_init.variant \in {"Hue", "Saturation"} =>
           SpecFracOk(pixel_init.brightness)

NoiseInRange ==
    \A i \in DOMAIN noise :
        /\ valid_range(pixel_init).start <= noise[i]
        /\ noise[i] <= valid_range(pixel_init).end

FreeAccepted(v) ==
    IF pixel_init.variant = "Hue" THEN SpecHueOk(v) ELSE SpecFracOk(v)

\* C10: every value of valid_range() is accepted for the free component (the
\* accepted values form an interval, so the two ends of valid_range() decide),
\* and with fixed components in range and every sample within valid_range()
\* generate_image returns Ok for every Size.
C10_InRangeSucceeds ==
    calls >= 1 =>
        /\ FreeAccepted(valid_range(pixel_init).start)
        /\ FreeAccepted(valid_range(pixel_init).end)
        /\ (FixedInRange /\ NoiseInRange) =>
               /\ panic = ""
               /\ result.tag # "Err"
               /\ pc # "sweep" => result.tag = "Ok"

\* C10 on the sizes whose largest index fits the u32 word.
C10_WhereIndexFits ==
    Pixels <= U32Modulus => C10_InRangeSucceeds

====
